---- MODULE Spec2Model ----
(***************************************************************************)
(* A model of the AuthHelper of nf_ndc_connect_public (src/src/lib.rs):    *)
(* token validation, the per-organization authorization summary, the       *)
(* role/permission predicates and the host bindings that serialize the     *)
(* summaries.                                                              *)
(*                                                                         *)
(* Strings that the code inspects character by character (group ids, org   *)
(* ids, owners, field identifiers) are sequences of one-character strings. *)
(* Strings that the code only compares or copies (names, descriptions) are *)
(* plain strings.  Option<T> is a sequence of length at most one.          *)
(***************************************************************************)
EXTENDS Integers, Sequences, FiniteSets, TLC

VARIABLES
    helper,   \* the AuthHelper: decoding key and validation policy
    now,      \* the clock the validation reads (seconds)
    jwt,      \* the token the caller holds
    pc,       \* "idle" | "returned": the sequential caller's position
    call,     \* the last call of the sequential caller: op, org_id, name
    result,   \* what that call returned
    cpc,      \* per concurrent caller: "idle" | "called" | "validated" | "resolved" | "done"
    ccall,    \* per concurrent caller: the call in progress
    cloc,     \* per concurrent caller: the locals of the call in progress
    cres      \* per concurrent caller: the value the call returned

vars == <<helper, now, jwt, pc, call, result, cpc, ccall, cloc, cres>>

-----------------------------------------------------------------------------
(* Option<T> and Result<T, String> *)

None == <<>>

Some(v) == <<v>>

IsSome(o) == Len(o) = 1

Unwrap(o) == o[1]

UnwrapOrDefault(o, default) == IF IsSome(o) THEN o[1] ELSE default

Ok(v) == [tag |-> "Ok", val |-> v]

Err(msg, detail) == [tag |-> "Err", msg |-> msg, detail |-> detail]

IsOk(r) == r.tag = "Ok"

IsErr(r) == r.tag = "Err"

-----------------------------------------------------------------------------
(* str::contains and str::split('/').last() *)

Contains(s, pat) ==
    \E i \in 0..(Len(s) - Len(pat)) : SubSeq(s, i + 1, i + Len(pat)) = pat

\* The index of the last '/' of s, 0 when there is none.
LastSlash(s) ==
    LET idx == {i \in 1..Len(s) : s[i] = "/"}
    IN  IF idx = {} THEN 0 ELSE CHOOSE i \in idx : \A j \in idx : j <= i

SplitLast(s) == SubSeq(s, LastSlash(s) + 1, Len(s))

-----------------------------------------------------------------------------
(* The strings of the model *)

sEmpty == <<>>

sA == <<"a">>

sE == <<"e">>

sAE == <<"a", "/", "e">>

sAS == <<"a", "/", "s">>

\* The group identifiers a token may carry.
GroupIds == {sAE, sE}

\* The organization ids a caller may pass explicitly.
OrgIds == GroupIds \cup {sAS, sA}

RoleNames == {"admin", "viewer"}

PermNames == {"read", "write"}

\* IdpRoleData: owner, name, description (display_name is never read).
RoleEntries ==
    { [owner |-> sE,     name |-> "admin",  description |-> Some("all of e")],
      [owner |-> sA,     name |-> "admin",  description |-> None],
      [owner |-> sAS,    name |-> "viewer", description |-> None] }

\* IdpPermissionData: owner, name.
PermEntries ==
    { [owner |-> sA,     name |-> "read"],
      [owner |-> sEmpty, name |-> "write"] }

MaxGroups == 2

MaxRoles == 2

MaxPerms == 2

RECURSIVE SeqsUpTo(_, _)
SeqsUpTo(S, n) ==
    IF n = 0 THEN {<<>>}
    ELSE LET shorter == SeqsUpTo(S, n - 1)
         IN  shorter \cup {Append(q, e) : q \in {p \in shorter : Len(p) = n - 1}, e \in S}

\* Option<Vec<T>> with at most n elements of S.
OptVecs(S, n) == {None} \cup {Some(q) : q \in SeqsUpTo(S, n)}

-----------------------------------------------------------------------------
(* Tokens *)

Epoch == 1000

\* Variant: the leeway is written in minutes where the policy takes seconds.
LeewayMinutes == 60 \div 60

Leeway == 60

FarFuture == Epoch + 100000

\* The expiry times of the tokens of the validation family, around Epoch - Leeway.
ExpChoices == {Epoch - 90, Epoch - 61, Epoch - 60, Epoch - 59, Epoch - 30, Epoch, Epoch + 30}

\* IdpClaims (iss, is_admin and properties are never read by the helper).
ClaimsOf(exp, groups, roles, perms) ==
    [sub |-> "user", exp |-> exp, groups |-> groups, roles |-> roles, permissions |-> perms]

\* A compact token: its number of dot-separated segments, the algorithm of its
\* header, the key pair that signed it, whether the payload deserializes into
\* IdpClaims, and the claims of the payload.
Token(segments, alg, signer, payload_ok, claims) ==
    [segments |-> segments, alg |-> alg, signer |-> signer,
     payload_ok |-> payload_ok, claims |-> claims]

\* Well-signed, unexpired tokens over every payload of the authorization data.
TokensAuth ==
    { Token(3, "RS256", "K1", TRUE, ClaimsOf(FarFuture, g, r, p)) :
        g \in OptVecs(GroupIds, MaxGroups),
        r \in OptVecs(RoleEntries, MaxRoles),
        p \in OptVecs(PermEntries, MaxPerms) }

\* The group lists of the validation family: absent, empty, one, two.
ValGroups == {None, Some(<<>>), Some(<<sAE>>), Some(<<sAE, sAS>>)}

ValRoles == Some(<<[owner |-> sA, name |-> "admin", description |-> None]>>)

ValPerms == Some(<<[owner |-> sA, name |-> "read"]>>)

\* Tokens over every envelope and expiry, with a few payloads.
TokensVal ==
    { Token(seg, alg, k, pok, ClaimsOf(exp, g, ValRoles, ValPerms)) :
        seg \in {2, 3}, alg \in {"RS256", "HS256"}, k \in {"K1", "K2"},
        pok \in BOOLEAN, exp \in ExpChoices, g \in ValGroups }

Tokens == TokensAuth \cup TokensVal

-----------------------------------------------------------------------------
(* AuthHelper::new *)

New(key) ==
    [decoding_key |-> key,
     validation |-> [algorithm |-> "RS256", leeway |-> Leeway]]

Constructed == New("K1")

-----------------------------------------------------------------------------
(* jsonwebtoken::decode under the helper's key and policy, at clock time t *)

Expired(exp, t, leeway) == exp < t - leeway

Decode(token, key, validation, t) ==
    IF token.segments # 3 THEN Err("InvalidToken", 0)
    ELSE IF token.alg # validation.algorithm THEN Err("InvalidAlgorithm", 0)
    ELSE IF token.signer # key THEN Err("InvalidSignature", 0)
    ELSE IF Expired(token.claims.exp, t, validation.leeway) THEN Err("ExpiredSignature", 0)
    ELSE IF ~token.payload_ok THEN Err("Json", 0)
    ELSE Ok(token.claims)

-----------------------------------------------------------------------------
(* impl AuthHelper *)

ValidationFailed == "JWT Validation Failed"

NoOrgContext == "No Org ID provided and no groups found in token."

AmbiguousOrg == "Ambiguous Org context: Token contains {} groups; explicit Org ID required."

IsValid(h, token, t) ==
    LET token_data == Decode(token, h.decoding_key, h.validation, t)
    IN  IF IsErr(token_data) THEN Err(ValidationFailed, token_data.msg)
        ELSE Ok(token_data.val)

\* Variant: the filter compares the owner with the group for equality.
RoleFilterExact(group, r) == group = r.owner

\* .filter(|r| group.contains(&r.owner))
RoleFilter(group, r) == Contains(group, r.owner)

\* .filter(|p| group.contains(&p.owner))
PermFilter(group, p) == Contains(group, p.owner)

RoleSummary(r) ==
    [name |-> r.name, description |-> UnwrapOrDefault(r.description, "")]

PermissionSummary(p) ==
    [name |-> p.name, description |-> "Permission details"]

\* all_roles.iter().filter(..).map(..).collect()
OrgRoles(group, all_roles) ==
    LET kept == SelectSeq(all_roles, LAMBDA r : RoleFilter(group, r))
    IN  [k \in 1..Len(kept) |-> RoleSummary(kept[k])]

\* all_perms.iter().filter(..).map(..).collect()
OrgPerms(group, all_perms) ==
    LET kept == SelectSeq(all_perms, LAMBDA p : PermFilter(group, p))
    IN  [k \in 1..Len(kept) |-> PermissionSummary(kept[k])]

\* Variant: every summary is flagged as the default.
IsDefaultAlways(i) == TRUE

IsDefault(i) == i = 0

\* The body of the loop over groups.iter().enumerate(); i counts from 0.
OrgAuthSummary(i, group, all_roles, all_perms) ==
    [org_id |-> group,
     org_name |-> SplitLast(group),
     is_default |-> IsDefault(i),
     roles |-> OrgRoles(group, all_roles),
     permissions |-> OrgPerms(group, all_perms)]

\* The loop: one push per group, from index i (counted from 0) on.
RECURSIVE OrgSummaries(_, _, _, _)
OrgSummaries(i, groups, all_roles, all_perms) ==
    IF i >= Len(groups) THEN <<>>
    ELSE <<OrgAuthSummary(i, groups[i + 1], all_roles, all_perms)>>
            \o OrgSummaries(i + 1, groups, all_roles, all_perms)

SummariesOf(claims) ==
    OrgSummaries(0, UnwrapOrDefault(claims.groups, <<>>),
                 UnwrapOrDefault(claims.roles, <<>>),
                 UnwrapOrDefault(claims.permissions, <<>>))

GetOrgAuthorisations(h, token, t) ==
    LET claims == IsValid(h, token, t)
    IN  IF IsErr(claims) THEN claims
        ELSE Ok(SummariesOf(claims.val))

\* Variant: without an explicit org id the first group is taken, whatever the
\* number of groups, and no groups gives the empty organization.
ResolveTargetOrgFirst(claims, org_id) ==
    IF IsSome(org_id) THEN Ok(Unwrap(org_id))
    ELSE LET groups == UnwrapOrDefault(claims.groups, <<>>)
         IN  IF Len(groups) >= 1 THEN Ok(groups[1]) ELSE Ok(<<>>)

\* Variant: an explicit org id is accepted only when it is one of the token's groups.
ResolveTargetOrgMember(claims, org_id) ==
    LET groups == UnwrapOrDefault(claims.groups, <<>>)
    IN  IF IsSome(org_id)
        THEN IF \E i \in 1..Len(groups) : groups[i] = Unwrap(org_id)
             THEN Ok(Unwrap(org_id))
             ELSE Err(NoOrgContext, 0)
        ELSE IF Len(groups) = 1 THEN Ok(groups[1])
             ELSE IF Len(groups) = 0 THEN Err(NoOrgContext, 0)
             ELSE Err(AmbiguousOrg, Len(groups))

ResolveTargetOrg(claims, org_id) ==
    IF IsSome(org_id) THEN Ok(Unwrap(org_id))
    ELSE LET groups == UnwrapOrDefault(claims.groups, <<>>)
         IN  IF Len(groups) = 1 THEN Ok(groups[1])
             ELSE IF Len(groups) = 0 THEN Err(NoOrgContext, 0)
             ELSE Err(AmbiguousOrg, Len(groups))

\* Variant: the predicate looks at the name only.
RoleMatchesNameOnly(r, role_name, target_org) == r.name = role_name

\* Variant: the predicate compares the owner with the organization for equality.
RoleMatchesExact(r, role_name, target_org) ==
    r.name = role_name /\ target_org = r.owner

\* |r| r.name == role_name && target_org.contains(&r.owner)
RoleMatches(r, role_name, target_org) ==
    r.name = role_name /\ Contains(target_org, r.owner)

\* |p| p.name == perm_name && target_org.contains(&p.owner)
PermMatches(p, perm_name, target_org) ==
    p.name = perm_name /\ Contains(target_org, p.owner)

\* roles.iter().any(...) over Option<Vec<IdpRoleData>>
AnyRole(roles, role_name, target_org) ==
    IF IsSome(roles)
    THEN \E i \in 1..Len(Unwrap(roles)) : RoleMatches(Unwrap(roles)[i], role_name, target_org)
    ELSE FALSE

AnyPerm(perms, perm_name, target_org) ==
    IF IsSome(perms)
    THEN \E i \in 1..Len(Unwrap(perms)) : PermMatches(Unwrap(perms)[i], perm_name, target_org)
    ELSE FALSE

\* Variant: the organization is resolved from the unverified payload before the
\* token is validated.
HasRoleResolveFirst(h, token, org_id, role_name, t) ==
    LET target_org == ResolveTargetOrg(token.claims, org_id)
    IN  IF IsErr(target_org) THEN target_org
        ELSE LET claims == IsValid(h, token, t)
             IN  IF IsErr(claims) THEN claims
                 ELSE Ok(AnyRole(claims.val.roles, role_name, target_org.val))

\* The two `?` of has_role, in the order the code applies them.
HasRole(h, token, org_id, role_name, t) ==
    LET claims == IsValid(h, token, t)
    IN  IF IsErr(claims) THEN claims
        ELSE LET target_org == ResolveTargetOrg(claims.val, org_id)
             IN  IF IsErr(target_org) THEN target_org
                 ELSE Ok(AnyRole(claims.val.roles, role_name, target_org.val))

HasPermission(h, token, org_id, perm_name, t) ==
    LET claims == IsValid(h, token, t)
    IN  IF IsErr(claims) THEN claims
        ELSE LET target_org == ResolveTargetOrg(claims.val, org_id)
             IN  IF IsErr(target_org) THEN target_org
                 ELSE Ok(AnyPerm(claims.val.permissions, perm_name, target_org.val))

-----------------------------------------------------------------------------
(* serde: the keys a derived Serialize emits *)

Upper ==
    [c \in {"a","b","c","d","e","f","g","h","i","j","k","l","m",
            "n","o","p","q","r","s","t","u","v","w","x","y","z"} |->
        CASE c = "a" -> "A" [] c = "b" -> "B" [] c = "c" -> "C" [] c = "d" -> "D"
          [] c = "e" -> "E" [] c = "f" -> "F" [] c = "g" -> "G" [] c = "h" -> "H"
          [] c = "i" -> "I" [] c = "j" -> "J" [] c = "k" -> "K" [] c = "l" -> "L"
          [] c = "m" -> "M" [] c = "n" -> "N" [] c = "o" -> "O" [] c = "p" -> "P"
          [] c = "q" -> "Q" [] c = "r" -> "R" [] c = "s" -> "S" [] c = "t" -> "T"
          [] c = "u" -> "U" [] c = "v" -> "V" [] c = "w" -> "W" [] c = "x" -> "X"
          [] c = "y" -> "Y" [] c = "z" -> "Z"]

\* rename_all = "camelCase": drop each '_' and capitalize the letter after it.
RECURSIVE CamelCase(_)
CamelCase(ident) ==
    IF ident = <<>> THEN <<>>
    ELSE IF Head(ident) = "_" /\ Len(ident) >= 2
         THEN <<Upper[ident[2]]>> \o CamelCase(SubSeq(ident, 3, Len(ident)))
         ELSE <<Head(ident)>> \o CamelCase(Tail(ident))

SerdeKey(ident, rename_all) ==
    IF rename_all = "camelCase" THEN CamelCase(ident) ELSE ident

\* The field identifiers of the output structures, in declaration order.
f_org_id == <<"o","r","g","_","i","d">>

f_org_name == <<"o","r","g","_","n","a","m","e">>

f_is_default == <<"i","s","_","d","e","f","a","u","l","t">>

f_roles == <<"r","o","l","e","s">>

f_permissions == <<"p","e","r","m","i","s","s","i","o","n","s">>

f_name == <<"n","a","m","e">>

f_description == <<"d","e","s","c","r","i","p","t","i","o","n">>

\* The serde container attribute of each output structure: none of the three
\* carries #[serde(rename_all = ...)].
OrgAuthSummaryRenameAll == "none"

RoleSummaryRenameAll == "none"

PermissionSummaryRenameAll == "none"

\* A serialized object is the ordered sequence of its <<key, value>> pairs.
SerializeRoleSummary(r) ==
    << <<SerdeKey(f_name, RoleSummaryRenameAll), r.name>>,
       <<SerdeKey(f_description, RoleSummaryRenameAll), r.description>> >>

SerializePermissionSummary(p) ==
    << <<SerdeKey(f_name, PermissionSummaryRenameAll), p.name>>,
       <<SerdeKey(f_description, PermissionSummaryRenameAll), p.description>> >>

SerializeOrgAuthSummary(s) ==
    << <<SerdeKey(f_org_id, OrgAuthSummaryRenameAll), s.org_id>>,
       <<SerdeKey(f_org_name, OrgAuthSummaryRenameAll), s.org_name>>,
       <<SerdeKey(f_is_default, OrgAuthSummaryRenameAll), s.is_default>>,
       <<SerdeKey(f_roles, OrgAuthSummaryRenameAll),
         [i \in 1..Len(s.roles) |-> SerializeRoleSummary(s.roles[i])]>>,
       <<SerdeKey(f_permissions, OrgAuthSummaryRenameAll),
         [i \in 1..Len(s.permissions) |-> SerializePermissionSummary(s.permissions[i])]>> >>

\* Vec<OrgAuthSummary>: an array, one object per summary, in order.
SerializeSummaries(auths) ==
    [i \in 1..Len(auths) |-> SerializeOrgAuthSummary(auths[i])]

\* PyIdpAuthHelper::get_org_authorisations / WasmIdpAuthHelper::get_org_authorisations
PyGetOrgAuthorisations(h, token, t) ==
    LET auths == GetOrgAuthorisations(h, token, t)
    IN  IF IsErr(auths) THEN auths ELSE Ok(SerializeSummaries(auths.val))

WasmGetOrgAuthorisations(h, token, t) ==
    LET auths == GetOrgAuthorisations(h, token, t)
    IN  IF IsErr(auths) THEN auths ELSE Ok(SerializeSummaries(auths.val))

\* PyIdpAuthHelper::is_valid / WasmIdpAuthHelper::is_valid
BindingIsValid(h, token, t) == IsOk(IsValid(h, token, t))

-----------------------------------------------------------------------------
(* The sequential caller: one token, one call at a time *)

\* Variant: a call rewrites the policy it has read (as a &mut self would allow).
SharedRefMut(h) == [h EXCEPT !.validation.leeway = 0]

\* Every method takes &self: the helper after a call is the helper before it.
SharedRef(h) == h

Callers == {"c1", "c2"}

NoCall == [op |-> "none", org_id |-> None, name |-> ""]

NoResult == [tag |-> "None"]

NoLocals == [t |-> 0, validated |-> NoResult, target_org |-> NoResult]

\* What a caller may pass as org_id: nothing, or any organization id.
OrgArgs == {None} \cup {Some(o) : o \in OrgIds}

NoToken == Token(0, "", "", FALSE, <<>>)

\* The state a constructed helper and its callers start from.
Constructing ==
    /\ helper = Constructed
    /\ now = Epoch
    /\ pc = "idle"
    /\ call = NoCall
    /\ result = NoResult
    /\ cpc = [c \in Callers |-> "idle"]
    /\ ccall = [c \in Callers |-> [token |-> NoToken, args |-> NoCall]]
    /\ cloc = [c \in Callers |-> NoLocals]
    /\ cres = [c \in Callers |-> NoResult]

Init == Constructing /\ jwt \in Tokens

Returns(op, org_id, name, value) ==
    /\ pc = "idle"
    /\ call' = [op |-> op, org_id |-> org_id, name |-> name]
    /\ result' = value
    /\ pc' = "returned"
    /\ helper' = SharedRef(helper)
    /\ UNCHANGED <<now, jwt, cpc, ccall, cloc, cres>>

DoIsValid == Returns("is_valid", None, "", IsValid(helper, jwt, now))

DoGetOrgAuthorisations ==
    Returns("get_org_authorisations", None, "", GetOrgAuthorisations(helper, jwt, now))

DoHasRole ==
    \E org_id \in OrgArgs, role_name \in RoleNames :
        Returns("has_role", org_id, role_name, HasRole(helper, jwt, org_id, role_name, now))

DoHasPermission ==
    \E org_id \in OrgArgs, perm_name \in PermNames :
        Returns("has_permission", org_id, perm_name,
                HasPermission(helper, jwt, org_id, perm_name, now))

DoBindingIsValid == Returns("binding_is_valid", None, "", Ok(BindingIsValid(helper, jwt, now)))

DoPyGetOrgAuthorisations ==
    Returns("py_get_org_authorisations", None, "", PyGetOrgAuthorisations(helper, jwt, now))

DoWasmGetOrgAuthorisations ==
    Returns("wasm_get_org_authorisations", None, "", WasmGetOrgAuthorisations(helper, jwt, now))

\* The caller takes the returned value and is ready for its next call.
Return ==
    /\ pc = "returned"
    /\ pc' = "idle"
    /\ call' = NoCall
    /\ result' = NoResult
    /\ UNCHANGED <<helper, now, jwt, cpc, ccall, cloc, cres>>

Next ==
    \/ DoIsValid
    \/ DoGetOrgAuthorisations
    \/ DoHasRole
    \/ DoHasPermission
    \/ DoBindingIsValid
    \/ DoPyGetOrgAuthorisations
    \/ DoWasmGetOrgAuthorisations
    \/ Return

Spec == Init /\ [][Next]_vars

-----------------------------------------------------------------------------
(* Concurrent callers on one shared helper.  A call advances in the steps of *)
(* its method: is_valid (which reads the key, the policy and the clock),     *)
(* then the summary loop, or resolve_target_org and then the search.         *)

MaxTicks == 1

\* The tokens the concurrent callers present: one that validates at Epoch and
\* no longer one second later, one that validates throughout; each naming one
\* or two groups.
ConcTokens ==
    { Token(3, "RS256", "K1", TRUE, ClaimsOf(exp, g, ValRoles, ValPerms)) :
        exp \in {Epoch - Leeway, Epoch + 30}, g \in {Some(<<sAE>>), Some(<<sAE, sAS>>)} }

ConcArgs ==
    { [op |-> "is_valid", org_id |-> None, name |-> ""],
      [op |-> "get_org_authorisations", org_id |-> None, name |-> ""] }
    \cup { [op |-> "has_role", org_id |-> o, name |-> "admin"] : o \in {None, Some(sAS)} }
    \cup { [op |-> "has_permission", org_id |-> o, name |-> "read"] : o \in {None, Some(sAS)} }

InitConc == Constructing /\ jwt = NoToken

SeqVars == <<jwt, pc, call, result>>

Finish(c, value) ==
    /\ cres' = [cres EXCEPT ![c] = value]
    /\ cpc' = [cpc EXCEPT ![c] = "done"]

\* A caller issues a call.
CCall(c) ==
    /\ cpc[c] = "idle"
    /\ \E token \in ConcTokens, args \in ConcArgs :
          ccall' = [ccall EXCEPT ![c] = [token |-> token, args |-> args]]
    /\ cpc' = [cpc EXCEPT ![c] = "called"]
    /\ UNCHANGED <<helper, now, cloc, cres, SeqVars>>

\* let claims = self.is_valid(jwt)?;  (is_valid itself returns here)
CValidate(c) ==
    /\ cpc[c] = "called"
    /\ LET validated == IsValid(helper, ccall[c].token, now)
       IN  /\ cloc' = [cloc EXCEPT ![c] = [@ EXCEPT !.t = now, !.validated = validated]]
           /\ IF IsErr(validated) \/ ccall[c].args.op = "is_valid"
              THEN Finish(c, validated)
              ELSE /\ cpc' = [cpc EXCEPT ![c] = "validated"]
                   /\ UNCHANGED cres
    /\ helper' = SharedRef(helper)
    /\ UNCHANGED <<now, ccall, SeqVars>>

\* The loop of get_org_authorisations over the validated claims.
CSummarize(c) ==
    /\ cpc[c] = "validated"
    /\ ccall[c].args.op = "get_org_authorisations"
    /\ Finish(c, Ok(SummariesOf(cloc[c].validated.val)))
    /\ helper' = SharedRef(helper)
    /\ UNCHANGED <<now, ccall, cloc, SeqVars>>

\* let target_org = self.resolve_target_org(&claims, org_id)?;
CResolve(c) ==
    /\ cpc[c] = "validated"
    /\ ccall[c].args.op \in {"has_role", "has_permission"}
    /\ LET target_org == ResolveTargetOrg(cloc[c].validated.val, ccall[c].args.org_id)
       IN  IF IsErr(target_org)
           THEN Finish(c, target_org) /\ UNCHANGED cloc
           ELSE /\ cloc' = [cloc EXCEPT ![c] = [@ EXCEPT !.target_org = target_org]]
                /\ cpc' = [cpc EXCEPT ![c] = "resolved"]
                /\ UNCHANGED cres
    /\ helper' = SharedRef(helper)
    /\ UNCHANGED <<now, ccall, SeqVars>>

\* The search over the roles or the permissions of the validated claims.
CSearch(c) ==
    /\ cpc[c] = "resolved"
    /\ LET claims == cloc[c].validated.val
           target_org == cloc[c].target_org.val
       IN  IF ccall[c].args.op = "has_role"
           THEN Finish(c, Ok(AnyRole(claims.roles, ccall[c].args.name, target_org)))
           ELSE Finish(c, Ok(AnyPerm(claims.permissions, ccall[c].args.name, target_org)))
    /\ helper' = SharedRef(helper)
    /\ UNCHANGED <<now, ccall, cloc, SeqVars>>

\* The caller takes the returned value; the locals of the call are dropped.
CReturn(c) ==
    /\ cpc[c] = "done"
    /\ cpc' = [cpc EXCEPT ![c] = "idle"]
    /\ ccall' = [ccall EXCEPT ![c] = [token |-> NoToken, args |-> NoCall]]
    /\ cloc' = [cloc EXCEPT ![c] = NoLocals]
    /\ cres' = [cres EXCEPT ![c] = NoResult]
    /\ UNCHANGED <<helper, now, SeqVars>>

\* A second passes.
Tick ==
    /\ now < Epoch + MaxTicks
    /\ now' = now + 1
    /\ UNCHANGED <<helper, cpc, ccall, cloc, cres, SeqVars>>

NextConc ==
    \/ Tick
    \/ \E c \in Callers : CCall(c)
    \/ \E c \in Callers : CValidate(c)
    \/ \E c \in Callers : CSummarize(c)
    \/ \E c \in Callers : CResolve(c)
    \/ \E c \in Callers : CSearch(c)
    \/ \E c \in Callers : CReturn(c)

SpecConc == InitConc /\ [][NextConc]_vars

-----------------------------------------------------------------------------
(* Vocabulary of the properties *)

\* sub occurs in s: s = prefix \o sub \o suffix for some prefix and suffix.
Substring(sub, s) ==
    \E i \in 0..Len(s), j \in 0..Len(s) : i <= j /\ SubSeq(s, i + 1, j) = sub

\* The token is well formed, signed by the helper's key pair with RS256, its
\* payload decodes, and its expiry is at most 60 seconds in the past.
Accepted(token, t) ==
    /\ token.segments = 3
    /\ token.alg = "RS256"
    /\ token.signer = "K1"
    /\ token.payload_ok
    /\ t - token.claims.exp <= 60

ListOf(optvec) == IF optvec = None THEN <<>> ELSE optvec[1]

GroupsOfToken == ListOf(jwt.claims.groups)

RolesOfToken == ListOf(jwt.claims.roles)

PermsOfToken == ListOf(jwt.claims.permissions)

ReturnedFrom(ops) == pc = "returned" /\ call.op \in ops

Predicates == {"has_role", "has_permission"}

\* The entry list the returned predicate call searched.
EntriesSearched == IF call.op = "has_role" THEN RolesOfToken ELSE PermsOfToken

\* Some entry of list has the name and an owner that occurs in org.
Grants(list, name, org) ==
    \E k \in 1..Len(list) : list[k].name = name /\ Substring(list[k].owner, org)

\* The k-th smallest element of a finite set of numbers.
Kth(M, k) == CHOOSE j \in M : Cardinality({m \in M : m <= j}) = k

\* names is the list of the names of those entries of list whose owner occurs
\* in group, in the order of list.
NamesOfOwned(names, list, group) ==
    LET M == {j \in 1..Len(list) : Substring(list[j].owner, group)}
    IN  /\ Len(names) = Cardinality(M)
        /\ \A k \in 1..Len(names) : names[k].name = list[Kth(M, k)].name

-----------------------------------------------------------------------------
(* C1 *)

\* C1: a has_role / has_permission call without org_id on a valid token
\* resolves the organization by the number of groups alone: one group gives a
\* boolean computed against that group, no group gives the "no organization
\* context" error, two or more give the ambiguity error carrying their number;
\* the last two never give a boolean.
C1_ResolveByGroupCount ==
    (ReturnedFrom(Predicates) /\ call.org_id = None /\ Accepted(jwt, now)) =>
        /\ Len(GroupsOfToken) = 1 =>
              /\ IsOk(result)
              /\ result.val \in BOOLEAN
              /\ result.val = Grants(EntriesSearched, call.name, GroupsOfToken[1])
        /\ Len(GroupsOfToken) = 0 =>
              /\ IsErr(result)
              /\ result.msg = NoOrgContext
        /\ Len(GroupsOfToken) >= 2 =>
              /\ IsErr(result)
              /\ result.msg = AmbiguousOrg
              /\ result.detail = Len(GroupsOfToken)

\* A predicate call without org_id has failed on a valid token with two groups.
C1_Witness ==
    /\ ReturnedFrom(Predicates) /\ call.org_id = None /\ Accepted(jwt, now)
    /\ Len(GroupsOfToken) = 2
    /\ IsErr(result)

-----------------------------------------------------------------------------
(* C2 *)

\* C2: when has_role (has_permission) on a valid token resolves an
\* organization T, it returns true exactly when some role (permission) entry
\* has the requested name and an owner occurring in T; with an absent or empty
\* list it returns false.
C2_TrueIffGranted ==
    (ReturnedFrom(Predicates) /\ Accepted(jwt, now) /\ IsOk(result)) =>
        LET T == IF call.org_id # None THEN call.org_id[1] ELSE GroupsOfToken[1]
        IN  /\ result.val = Grants(EntriesSearched, call.name, T)
            /\ EntriesSearched = <<>> => result.val = FALSE

\* has_role has returned true through an owner that is a proper substring of
\* the organization, beside an entry of the same name that does not match.
C2_Witness ==
    /\ ReturnedFrom({"has_role"}) /\ Accepted(jwt, now)
    /\ call.org_id = Some(sAE) /\ call.name = "admin"
    /\ Len(RolesOfToken) = 2
    /\ RolesOfToken[1].owner = sAS /\ RolesOfToken[2].owner = sA
    /\ result = Ok(TRUE)

-----------------------------------------------------------------------------
(* C3 *)

\* C3: get_org_authorisations on a valid token with N groups returns N
\* summaries, the i-th carrying the i-th group verbatim, the first flagged as
\* default and no other.
C3_OneSummaryPerGroup ==
    (ReturnedFrom({"get_org_authorisations"}) /\ Accepted(jwt, now)) =>
        /\ IsOk(result)
        /\ Len(result.val) = Len(GroupsOfToken)
        /\ \A i \in 1..Len(GroupsOfToken) :
              /\ result.val[i].org_id = GroupsOfToken[i]
              /\ result.val[i].is_default = (i = 1)

\* Two summaries have been returned for a token that names one group twice.
C3_Witness ==
    /\ ReturnedFrom({"get_org_authorisations"}) /\ Accepted(jwt, now)
    /\ GroupsOfToken = <<sAE, sAE>>
    /\ IsOk(result) /\ Len(result.val) = 2

-----------------------------------------------------------------------------
(* C4 *)

\* C4: in the summary of each group G, the roles (permissions) are the names
\* of exactly those role (permission) entries of the token whose owner occurs
\* in G, in the order of the token.
C4_EntriesByOwnerSubstring ==
    (ReturnedFrom({"get_org_authorisations"}) /\ Accepted(jwt, now)) =>
        \A i \in 1..Len(GroupsOfToken) :
            /\ i <= Len(result.val)
            /\ NamesOfOwned(result.val[i].roles, RolesOfToken, GroupsOfToken[i])
            /\ NamesOfOwned(result.val[i].permissions, PermsOfToken, GroupsOfToken[i])

\* A role whose owner occurs in both of two distinct groups is listed under
\* both, and a role whose owner occurs in only one of them under that one only.
C4_Witness ==
    /\ ReturnedFrom({"get_org_authorisations"}) /\ Accepted(jwt, now)
    /\ GroupsOfToken = <<sAE, sE>>
    /\ Len(RolesOfToken) = 2
    /\ RolesOfToken[1].owner = sA /\ RolesOfToken[2].owner = sE
    /\ Len(result.val[1].roles) = 2
    /\ Len(result.val[2].roles) = 1

-----------------------------------------------------------------------------
(* C5 *)

\* C5: a well-formed token signed by the helper's key pair validates exactly
\* when its expiry is at most 60 seconds before the clock: it does 30 seconds
\* after expiry and does not 90 seconds after.
C5_LeewaySixty ==
    ( /\ ReturnedFrom({"is_valid"})
      /\ jwt.segments = 3 /\ jwt.alg = "RS256" /\ jwt.signer = "K1" /\ jwt.payload_ok ) =>
        /\ IsOk(result) <=> now - jwt.claims.exp <= 60
        /\ jwt.claims.exp = now - 30 => IsOk(result)
        /\ jwt.claims.exp = now - 90 => IsErr(result)

\* A token that expired 30 seconds ago has validated.
C5_Witness ==
    /\ ReturnedFrom({"is_valid"})
    /\ jwt.claims.exp = now - 30
    /\ IsOk(result)

-----------------------------------------------------------------------------
(* C6 *)

\* C6: for a token that does not validate, get_org_authorisations, has_role
\* and has_permission return the validation failure, whatever org_id is passed
\* and however many groups the payload names.
C6_ValidationFirst ==
    ( /\ ReturnedFrom({"get_org_authorisations", "has_role", "has_permission"})
      /\ ~Accepted(jwt, now) ) =>
        /\ IsErr(result)
        /\ result.msg = ValidationFailed

\* has_role without org_id has failed on a badly signed token naming two groups.
C6_Witness ==
    /\ ReturnedFrom({"has_role"}) /\ call.org_id = None
    /\ jwt.signer # "K1"
    /\ Len(GroupsOfToken) = 2
    /\ IsErr(result)

-----------------------------------------------------------------------------
(* C7 *)

k_orgId == <<"o","r","g","I","d">>

k_orgName == <<"o","r","g","N","a","m","e">>

k_isDefault == <<"i","s","D","e","f","a","u","l","t">>

KeysOf(object) == [k \in 1..Len(object) |-> object[k][1]]

\* C7: each summary handed to a host is an object with the keys orgId,
\* orgName, isDefault, roles, permissions, and each role and permission in it
\* an object with the keys name, description.
C7_CamelCaseKeys ==
    ( /\ ReturnedFrom({"py_get_org_authorisations", "wasm_get_org_authorisations"})
      /\ IsOk(result) ) =>
        \A i \in 1..Len(result.val) :
            LET object == result.val[i]
            IN  /\ KeysOf(object) = <<k_orgId, k_orgName, k_isDefault, f_roles, f_permissions>>
                /\ \A k \in 1..Len(object[4][2]) :
                      KeysOf(object[4][2][k]) = <<f_name, f_description>>
                /\ \A k \in 1..Len(object[5][2]) :
                      KeysOf(object[5][2][k]) = <<f_name, f_description>>

-----------------------------------------------------------------------------
(* C9 *)

\* The summaries get_org_authorisations gives for the caller's token now.
SummariesNow == GetOrgAuthorisations(helper, jwt, now).val

\* C9: has_role (has_permission) for a group of the token returns true exactly
\* when every summary get_org_authorisations gives for that group lists a role
\* (permission) of the requested name.
C9_PredicateAgreesWithSummary ==
    ( /\ ReturnedFrom(Predicates) /\ Accepted(jwt, now)
      /\ call.org_id # None ) =>
        \A i \in 1..Len(GroupsOfToken) :
            GroupsOfToken[i] = call.org_id[1] =>
                LET listed == IF call.op = "has_role"
                              THEN SummariesNow[i].roles
                              ELSE SummariesNow[i].permissions
                IN  /\ IsOk(result)
                    /\ result.val = (\E k \in 1..Len(listed) : listed[k].name = call.name)

\* has_permission has returned true for the second group of the token.
C9_Witness ==
    /\ ReturnedFrom({"has_permission"}) /\ Accepted(jwt, now)
    /\ Len(GroupsOfToken) = 2
    /\ call.org_id = Some(GroupsOfToken[2])
    /\ GroupsOfToken[1] # GroupsOfToken[2]
    /\ result = Ok(TRUE)

-----------------------------------------------------------------------------
(* C10 *)

\* The call the caller made, on the same token with another group list.
SameCallWithGroups(groups) ==
    LET other == [jwt EXCEPT !.claims.groups = groups]
    IN  IF call.op = "has_role"
        THEN HasRole(helper, other, call.org_id, call.name, now)
        ELSE HasPermission(helper, other, call.org_id, call.name, now)

\* C10: with an explicit org_id a predicate call on a valid token never fails,
\* and its result is the one the same call gives on the same token with any
\* other group list.
C10_ExplicitOrgIgnoresGroups ==
    ( /\ ReturnedFrom(Predicates) /\ Accepted(jwt, now)
      /\ call.org_id # None ) =>
        /\ IsOk(result)
        /\ \A groups \in OptVecs(GroupIds, MaxGroups) : SameCallWithGroups(groups) = result

\* has_role has returned true for an organization that is not a group of the token.
C10_Witness ==
    /\ ReturnedFrom({"has_role"}) /\ Accepted(jwt, now)
    /\ call.org_id # None
    /\ \A i \in 1..Len(GroupsOfToken) : GroupsOfToken[i] # call.org_id[1]
    /\ Len(GroupsOfToken) = 2
    /\ result = Ok(TRUE)

-----------------------------------------------------------------------------
(* C8 *)

\* What the call returns when it runs alone on the constructed helper at time t.
Alone(token, args, t) ==
    CASE args.op = "is_valid" -> IsValid(Constructed, token, t)
      [] args.op = "get_org_authorisations" -> GetOrgAuthorisations(Constructed, token, t)
      [] args.op = "has_role" -> HasRole(Constructed, token, args.org_id, args.name, t)
      [] args.op = "has_permission" ->
            HasPermission(Constructed, token, args.org_id, args.name, t)

\* C8: under any interleaving of the callers the key and the policy keep their
\* constructed values, and every finished call has returned what it returns
\* alone with its token, org_id, name and the time it read.
C8_ReadOnlyHelper ==
    /\ helper = Constructed
    /\ \A c \in Callers :
          cpc[c] = "done" => cres[c] = Alone(ccall[c].token, ccall[c].args, cloc[c].t)

\* One caller has finished a has_role call on a token that has expired since
\* it was validated, while the other caller is in the middle of a call.
C8_Witness ==
    /\ cpc["c1"] = "done"
    /\ ccall["c1"].args.op = "has_role"
    /\ cres["c1"] = Ok(TRUE)
    /\ cloc["c1"].t < now
    /\ IsErr(IsValid(helper, ccall["c1"].token, now))
    /\ cpc["c2"] \in {"validated", "resolved"}

====
